---- MODULE Spec2Model ----
(***************************************************************************)
(* Model of the Project Recall memory orchestrator                         *)
(* (services/orchestrator/main.py): signal detection, context extraction,  *)
(* the Mem0 client and the session_start / session_end handlers.           *)
(*                                                                         *)
(* A Python str is a sequence of characters; a character is a one-element  *)
(* token: "a", "b", "x" are lower-case letters, "A" is the upper-case of   *)
(* "a", " " is whitespace, "Idot" is U+0130 (whose str.lower() is the two  *)
(* characters "i" and "dot", U+0069 U+0307).  A Python dict is a function  *)
(* from its keys.                                                          *)
(***************************************************************************)
EXTENDS Integers, Sequences, FiniteSets, TLC

VARIABLES
    SIGNAL_KEYWORDS,  \* the configured trigger list (main.py:27), fixed at start
    pc,               \* position of the handler being executed
    req,              \* the request (arguments) of the current call
    response,         \* what the call returned / the HTTP response
    signals,          \* session_end: local `signals`
    captured,         \* session_end: local `captured`
    idx,              \* session_end: position of the for loop in `signals`
    memories,         \* session_start: local `memories`
    relevant,         \* session_start: local `relevant`
    calls,            \* outbound requests issued so far by the current call
    inflight,         \* the outbound request awaiting its reply: <<>> or <<request>>
    reply,            \* reply to the last outbound request
    store,            \* the backend's records, in backend order
    clock             \* datetime.now()

vars == <<SIGNAL_KEYWORDS, pc, req, response, signals, captured, idx,
          memories, relevant, calls, inflight, reply, store, clock>>

----------------------------------------------------------------------------
(* Bounds of the model *)

MaxKeywords == 2
MaxText == 2
MaxExtractText == 3
MaxSignalLen == 2
MaxWindow == 3

(* Program constants *)

DEFAULT_WINDOW == 200

----------------------------------------------------------------------------
(* Python str operations *)

Min2(a, b) == IF a <= b THEN a ELSE b
Max2(a, b) == IF a >= b THEN a ELSE b

\* str.lower() of one character
LowerChar(c) ==
    CASE c = "A" -> <<"a">>
      [] c = "B" -> <<"b">>
      [] c = "Idot" -> <<"i", "dot">>
      [] OTHER -> <<c>>

\* str.lower(): the concatenation of the characters' lower-case mappings
RECURSIVE Lower(_)
Lower(s) ==
    IF Len(s) = 0 THEN <<>>
    ELSE IF Len(s) = 1 THEN LowerChar(s[1])
    ELSE LET h == Len(s) \div 2
         IN  Lower(SubSeq(s, 1, h)) \o Lower(SubSeq(s, h + 1, Len(s)))

IsSpace(c) == c = " "

\* str.strip(): without leading and trailing whitespace
Strip(s) ==
    IF \A k \in 1..Len(s) : IsSpace(s[k]) THEN <<>>
    ELSE LET first == CHOOSE k \in 1..Len(s) :
                          /\ ~IsSpace(s[k])
                          /\ \A j \in 1..(k - 1) : IsSpace(s[j])
             last == CHOOSE k \in 1..Len(s) :
                          /\ ~IsSpace(s[k])
                          /\ \A j \in (k + 1)..Len(s) : IsSpace(s[j])
         IN  SubSeq(s, first, last)

MatchAt(hay, needle, p) == SubSeq(hay, p + 1, p + Len(needle)) = needle

\* str.find(): 0-based index of the first occurrence, -1 when there is none
Find(hay, needle) ==
    IF \E p \in 0..(Len(hay) - Len(needle)) : MatchAt(hay, needle, p)
    THEN CHOOSE p \in 0..(Len(hay) - Len(needle)) :
             /\ MatchAt(hay, needle, p)
             /\ \A q \in 0..(p - 1) : ~MatchAt(hay, needle, q)
    ELSE -1

\* needle in hay
Contains(hay, needle) == Find(hay, needle) # -1

\* s[a:b] for a, b >= 0
Slice(s, a, b) ==
    LET lo == Min2(a, Len(s))
        hi == Min2(b, Len(s))
    IN  IF lo >= hi THEN <<>> ELSE SubSeq(s, lo + 1, hi)

\* all sequences over S of length at most n
SeqsUpTo(S, n) == UNION {[1..k -> S] : k \in 0..n}

Range(s) == {s[k] : k \in 1..Len(s)}

----------------------------------------------------------------------------
(* Signal detection *)

RECURSIVE detect_loop(_, _)
detect_loop(text_lower, keywords) ==
    IF keywords = <<>> THEN <<>>
    ELSE LET keyword == Head(keywords)
         IN  (IF Contains(text_lower, Lower(Strip(keyword)))
              THEN <<Strip(keyword)>> ELSE <<>>)
             \o detect_loop(text_lower, Tail(keywords))

detect_signals(text) == detect_loop(Lower(text), SIGNAL_KEYWORDS)

\* start and end of the slice taken around the match at pos
extract_bounds(text, signal, window, pos) ==
    <<Max2(0, pos - (window \div 2)),
      Min2(Len(text), pos + Len(signal) + (window \div 2))>>

extract_signal_context(text, signal, window) ==
    LET text_lower == Lower(text)
        pos == Find(text_lower, Lower(signal))
        bounds == extract_bounds(text, signal, window, pos)
    IN  IF pos = -1 THEN Slice(text, 0, window)
        ELSE Strip(Slice(text, bounds[1], bounds[2]))

----------------------------------------------------------------------------
(* Inputs *)

\* raw entries of SIGNAL_KEYWORDS, as split(",") leaves them
Keywords == {<<"a">>, <<" ", "a">>, <<"b">>, <<"A", "b">>}
KeywordLists == SeqsUpTo(Keywords, MaxKeywords)

TextChars == {"a", "A", "b", " "}
Texts == SeqsUpTo(TextChars, MaxText)

ExtractChars == {"a", "A", " ", "Idot"}
ExtractTexts == SeqsUpTo(ExtractChars, MaxExtractText)
ExtractSignals == SeqsUpTo({"a", "A", " "}, MaxSignalLen)
Windows == (0..MaxWindow) \cup {DEFAULT_WINDOW}

NoReply == [ok |-> TRUE, body |-> [results |-> <<>>]]

Idle ==
    /\ pc = "idle" /\ req = [op |-> "none"] /\ response = <<>>
    /\ signals = <<>> /\ captured = <<>> /\ idx = 0
    /\ memories = [results |-> <<>>] /\ relevant = <<>>
    /\ calls = <<>> /\ inflight = <<>> /\ reply = NoReply
    /\ clock = 1

----------------------------------------------------------------------------
(* detect_signals as a function of the configured triggers and the text *)

InitDetect ==
    /\ SIGNAL_KEYWORDS \in KeywordLists
    /\ store = <<>>
    /\ Idle

DetectCall(text) ==
    /\ pc = "idle"
    /\ req' = [text |-> text]
    /\ response' = detect_signals(text)
    /\ pc' = "returned"
    /\ UNCHANGED <<SIGNAL_KEYWORDS, signals, captured, idx, memories, relevant,
                   calls, inflight, reply, store, clock>>

NextDetect == \E text \in Texts : DetectCall(text)

SpecDetect == InitDetect /\ [][NextDetect]_vars

----------------------------------------------------------------------------
(* extract_signal_context as a function of text, signal and window *)

InitExtract ==
    /\ SIGNAL_KEYWORDS = <<>>
    /\ store = <<>>
    /\ Idle

ExtractCall(text, signal, window) ==
    /\ pc = "idle"
    /\ req' = [text |-> text, signal |-> signal, window |-> window]
    /\ response' = extract_signal_context(text, signal, window)
    /\ pc' = "returned"
    /\ UNCHANGED <<SIGNAL_KEYWORDS, signals, captured, idx, memories, relevant,
                   calls, inflight, reply, store, clock>>

NextExtract ==
    \E text \in ExtractTexts, signal \in ExtractSignals, window \in Windows :
        ExtractCall(text, signal, window)

SpecExtract == InitExtract /\ [][NextExtract]_vars

----------------------------------------------------------------------------
(* Mem0 client *)

\* datetime.isoformat() of the time t
isoformat(t) == [iso |-> t]

\* {**base, **over}: the keys of both, over's value where both have the key
DictMerge(base, over) ==
    [k \in (DOMAIN base) \cup (DOMAIN over) |->
        IF k \in DOMAIN over THEN over[k] ELSE base[k]]

\* d.get(k, default)
DictGet(d, k, default) == IF k \in DOMAIN d THEN d[k] ELSE default

\* `metadata or {}`: an optional dict is <<>> (None) or <<d>>
OrEmptyDict(metadata) ==
    IF metadata = <<>> THEN [k \in {} |-> TRUE] ELSE metadata[1]

\* the request mem0_add posts when called at time now
mem0_add(content, user_id, project_id, metadata, now) ==
    [op |-> "add",
     json |-> [messages |-> <<[role |-> "user", content |-> content]>>,
               user_id |-> user_id,
               metadata |-> DictMerge([project_id |-> project_id,
                                       captured_at |-> isoformat(now)],
                                      OrEmptyDict(metadata))]]

\* `if user_id:` / `if project_id:` for a str
str_truthy(x) == x # ""

\* the request mem0_search posts
mem0_search(query, user_id, project_id, limit) ==
    [op |-> "search",
     json |-> DictMerge(
                  DictMerge([query |-> query, limit |-> limit],
                            IF str_truthy(user_id)
                            THEN [user_id |-> user_id]
                            ELSE [k \in {} |-> ""]),
                  IF str_truthy(project_id)
                  THEN [filters |-> [project_id |-> project_id]]
                  ELSE [k \in {} |-> ""])]

\* the request mem0_get_all sends
mem0_get_all(user_id, project_id) ==
    [op |-> "get_all", params |-> [user_id |-> user_id]]

\* raise HTTPException(status_code=500, detail=str(e))
HttpError == [status_code |-> 500, detail |-> "error"]

\* outbound request: issued, and in flight until the backend replies
Send(request) ==
    /\ calls' = Append(calls, request)
    /\ inflight' = Append(inflight, request)

\* the backend stores the record and answers with its id
BackendAdd ==
    /\ inflight # <<>>
    /\ Head(inflight).op = "add"
    /\ LET json == Head(inflight).json
           id == Len(store) + 1
       IN  /\ store' = Append(store, [id |-> id,
                                      user_id |-> json.user_id,
                                      project_id |-> json.metadata.project_id,
                                      content |-> json.messages[1].content,
                                      metadata |-> json.metadata])
           /\ reply' = [ok |-> TRUE, body |-> [id |-> id]]
    /\ inflight' = Tail(inflight)
    /\ UNCHANGED <<SIGNAL_KEYWORDS, pc, req, response, signals, captured, idx,
                   memories, relevant, calls, clock>>

\* transport failure or non-success status: raise_for_status() raises
BackendFail ==
    /\ inflight # <<>>
    /\ reply' = [ok |-> FALSE, body |-> [results |-> <<>>]]
    /\ inflight' = Tail(inflight)
    /\ UNCHANGED <<SIGNAL_KEYWORDS, pc, req, response, signals, captured, idx,
                   memories, relevant, calls, store, clock>>

\* the backend lists the records that match the restrictions it received
BackendList ==
    /\ inflight # <<>>
    /\ Head(inflight).op = "get_all"
    /\ LET params == Head(inflight).params
           Matches(r) ==
               /\ "user_id" \in DOMAIN params => r.user_id = params.user_id
               /\ "project_id" \in DOMAIN params => r.project_id = params.project_id
       IN  reply' = [ok |-> TRUE, body |-> [results |-> SelectSeq(store, Matches)]]
    /\ inflight' = Tail(inflight)
    /\ UNCHANGED <<SIGNAL_KEYWORDS, pc, req, response, signals, captured, idx,
                   memories, relevant, calls, store, clock>>

\* the backend answers a search with the records that match the restrictions
\* it received; it may or may not keep to the limit it was given
BackendSearch(honours_limit) ==
    /\ inflight # <<>>
    /\ Head(inflight).op = "search"
    /\ LET json == Head(inflight).json
           Matches(r) ==
               /\ "user_id" \in DOMAIN json => r.user_id = json.user_id
               /\ "filters" \in DOMAIN json => r.project_id = json.filters.project_id
           found == SelectSeq(store, Matches)
       IN  reply' = [ok |-> TRUE,
                     body |-> [results |-> IF honours_limit
                                           THEN Slice(found, 0, json.limit)
                                           ELSE found]]
    /\ inflight' = Tail(inflight)
    /\ UNCHANGED <<SIGNAL_KEYWORDS, pc, req, response, signals, captured, idx,
                   memories, relevant, calls, store, clock>>

----------------------------------------------------------------------------
(* mem0_add as a function of its arguments *)

MaxClock == 2

Users == {"u1", "u2"}
Projects == {"p1", "p2"}
Contents == {<<"a">>, <<"a", "b">>}
MetaKeys == {"captured_at", "project_id", "source", "scope"}

\* what a caller puts under a metadata key
CallerValue(k) ==
    CASE k = "captured_at" -> isoformat(0)
      [] k = "project_id" -> "p9"
      [] k = "source" -> "explicit-capture"
      [] k = "scope" -> "user-private"

InitAdd ==
    /\ SIGNAL_KEYWORDS = <<>>
    /\ store = <<>>
    /\ Idle

AddCall(content, user_id, project_id, metadata) ==
    /\ pc = "idle"
    /\ clock < MaxClock + 1
    /\ req' = [content |-> content, user_id |-> user_id,
               project_id |-> project_id, metadata |-> metadata, now |-> clock]
    /\ Send(mem0_add(content, user_id, project_id, metadata, clock))
    /\ clock' = clock + 1
    /\ pc' = "await_add"
    /\ UNCHANGED <<SIGNAL_KEYWORDS, response, signals, captured, idx,
                   memories, relevant, reply, store>>

AddReturn ==
    /\ pc = "await_add"
    /\ inflight = <<>>
    /\ response' = reply
    /\ pc' = "idle"
    /\ calls' = <<>>
    /\ UNCHANGED <<SIGNAL_KEYWORDS, req, signals, captured, idx,
                   memories, relevant, inflight, reply, store, clock>>

NextAdd ==
    \/ \E content \in Contents, user_id \in Users, project_id \in Projects,
          keys \in SUBSET MetaKeys, given \in BOOLEAN :
          AddCall(content, user_id, project_id,
                  IF given THEN <<[k \in keys |-> CallerValue(k)]>> ELSE <<>>)
    \/ BackendAdd
    \/ BackendFail
    \/ AddReturn

SpecAdd == InitAdd /\ [][NextAdd]_vars

----------------------------------------------------------------------------
(* session_end *)

MaxEndKeywords == 3
MaxOver == 1

MIN_TRANSCRIPT_LEN == 100
TRANSCRIPT_LIMIT == 5000

\* "Session transcript:\n"
TranscriptHeader ==
    <<"S", "e", "s", "s", "i", "o", "n", " ", "t", "r", "a", "n", "s", "c",
      "r", "i", "p", "t", ":", "\n">>

\* mutant: the threshold compared with >= instead of >
is_substantial_ge(transcript) == Len(transcript) >= MIN_TRANSCRIPT_LEN

\* len(req.transcript) > 100
is_substantial(transcript) == Len(transcript) > MIN_TRANSCRIPT_LEN

\* mutant: the transcript is not truncated
transcript_content_untruncated(transcript) == TranscriptHeader \o transcript

\* f"Session transcript:\n{req.transcript[:5000]}"
transcript_content(transcript) ==
    TranscriptHeader \o Slice(transcript, 0, TRANSCRIPT_LIMIT)

EndKeywords == {<<"a">>, <<" ", "A", "b">>}
EndKeywordLists == SeqsUpTo(EndKeywords, MaxEndKeywords)

\* how a transcript starts; the rest is filled with "x"
EndCores == {<<>>, <<"a">>, <<"b">>, <<"A", "B">>, <<"a", " ", "A", "b">>,
             <<"x", "b">>}
LongCores == {<<"a", " ", "A", "b">>, <<"x", "b">>}
EndLengths == {0, MIN_TRANSCRIPT_LEN, MIN_TRANSCRIPT_LEN + 1}
LongLengths == {TRANSCRIPT_LIMIT + k : k \in 0..MaxOver}

\* core, filled with "x" up to length n (core itself when it is longer)
Padded(core, n) ==
    core \o [k \in 1..(n - Len(core)) |-> "x"]

Transcripts ==
    {Padded(core, n) : core \in EndCores, n \in EndLengths}
        \cup {Padded(core, n) : core \in LongCores, n \in LongLengths}

EndUsers == {"u1"}
EndProjects == {"p1"}

InitEnd ==
    /\ SIGNAL_KEYWORDS \in EndKeywordLists
    /\ store = <<>>
    /\ Idle

EndOk ==
    [status_code |-> 200, status |-> "ok",
     signals_detected |-> signals, memories_captured |-> captured]

\* lines 236-239: detect the signals of the transcript
EndCall(user_id, project_id, transcript) ==
    /\ pc = "idle"
    /\ req' = [user_id |-> user_id, project_id |-> project_id,
               transcript |-> transcript]
    /\ signals' = detect_signals(transcript)
    /\ captured' = <<>>
    /\ idx' = 1
    /\ pc' = "for"
    /\ UNCHANGED <<SIGNAL_KEYWORDS, response, memories, relevant, calls,
                   inflight, reply, store, clock>>

\* mutant: the add is started without awaiting it (fan-out)
EndSignalAdd_NoAwait ==
    /\ pc = "for"
    /\ idx <= Len(signals)
    /\ LET signal == signals[idx]
           context == extract_signal_context(req.transcript, signal,
                                             DEFAULT_WINDOW)
       IN  /\ Send(mem0_add(context, req.user_id, req.project_id,
                            <<[signal |-> signal, source |-> "auto-capture"]>>,
                            clock))
           /\ captured' = Append(captured, [signal |-> signal, memory_id |-> 0])
    /\ clock' = clock + 1
    /\ idx' = idx + 1
    /\ UNCHANGED <<SIGNAL_KEYWORDS, pc, req, response, signals,
                   memories, relevant, reply, store>>

\* lines 242-249: the loop body up to the await of mem0_add
EndSignalAdd ==
    /\ pc = "for"
    /\ idx <= Len(signals)
    /\ LET signal == signals[idx]
           context == extract_signal_context(req.transcript, signal,
                                             DEFAULT_WINDOW)
       IN  Send(mem0_add(context, req.user_id, req.project_id,
                         <<[signal |-> signal, source |-> "auto-capture"]>>,
                         clock))
    /\ clock' = clock + 1
    /\ pc' = "await_signal"
    /\ UNCHANGED <<SIGNAL_KEYWORDS, req, response, signals, captured, idx,
                   memories, relevant, reply, store>>

\* mutant: a failed add is skipped and the loop goes on
EndSignalReturn_Swallow ==
    /\ pc = "await_signal"
    /\ inflight = <<>>
    /\ captured' = IF reply.ok
                   THEN Append(captured,
                               [signal |-> signals[idx],
                                memory_id |-> DictGet(reply.body, "id", 0)])
                   ELSE captured
    /\ idx' = idx + 1
    /\ pc' = "for"
    /\ UNCHANGED <<SIGNAL_KEYWORDS, req, response, signals, memories, relevant,
                   calls, inflight, reply, store, clock>>

\* lines 244-251, 268-270: mem0_add returned or raised
\* (result.get("id") of a reply without an id, Python's None, is written 0)
EndSignalReturn ==
    /\ pc = "await_signal"
    /\ inflight = <<>>
    /\ IF reply.ok
       THEN /\ captured' = Append(captured,
                                  [signal |-> signals[idx],
                                   memory_id |-> DictGet(reply.body, "id", 0)])
            /\ idx' = idx + 1
            /\ pc' = "for"
            /\ UNCHANGED response
       ELSE /\ response' = HttpError
            /\ pc' = "done"
            /\ UNCHANGED <<captured, idx>>
    /\ UNCHANGED <<SIGNAL_KEYWORDS, req, signals, memories, relevant, calls,
                   inflight, reply, store, clock>>

\* lines 255-261: the full transcript, up to the await of mem0_add
EndTranscriptAdd ==
    /\ pc = "for"
    /\ idx > Len(signals)
    /\ is_substantial(req.transcript)
    /\ Send(mem0_add(transcript_content(req.transcript), req.user_id,
                     req.project_id,
                     <<[source |-> "session-end", full_transcript |-> TRUE]>>,
                     clock))
    /\ clock' = clock + 1
    /\ pc' = "await_transcript"
    /\ UNCHANGED <<SIGNAL_KEYWORDS, req, response, signals, captured, idx,
                   memories, relevant, reply, store>>

\* lines 256-267, 268-270: mem0_add returned or raised
EndTranscriptReturn ==
    /\ pc = "await_transcript"
    /\ inflight = <<>>
    /\ response' = IF reply.ok THEN EndOk ELSE HttpError
    /\ pc' = "done"
    /\ UNCHANGED <<SIGNAL_KEYWORDS, req, signals, captured, idx, memories,
                   relevant, calls, inflight, reply, store, clock>>

\* lines 255, 263-267: no full-transcript record
EndReturn ==
    /\ pc = "for"
    /\ idx > Len(signals)
    /\ ~is_substantial(req.transcript)
    /\ response' = EndOk
    /\ pc' = "done"
    /\ UNCHANGED <<SIGNAL_KEYWORDS, req, signals, captured, idx, memories,
                   relevant, calls, inflight, reply, store, clock>>

NextEnd ==
    \/ \E user_id \in EndUsers, project_id \in EndProjects,
          transcript \in Transcripts :
          EndCall(user_id, project_id, transcript)
    \/ EndSignalAdd
    \/ EndSignalReturn
    \/ EndTranscriptAdd
    \/ EndTranscriptReturn
    \/ EndReturn
    \/ BackendAdd
    \/ BackendFail

SpecEnd == InitEnd /\ [][NextEnd]_vars

----------------------------------------------------------------------------
(* session_start *)

MaxStore == 16

RECENT_LIMIT == 10
SEARCH_LIMIT == 5

\* the k-th record of the backend: every fourth is u2's, every third in p2
StoredRecord(k) ==
    LET project_id == IF k % 3 = 0 THEN "p2" ELSE "p1"
    IN  [id |-> k,
         user_id |-> IF k % 4 = 0 THEN "u2" ELSE "u1",
         project_id |-> project_id,
         content |-> <<"a">>,
         metadata |-> [project_id |-> project_id]]

StoreOf(n) == [k \in 1..n |-> StoredRecord(k)]

\* an optional query hint: <<>> (None) or <<text>>
Queries == {<<>>, <<<<>>>>, <<<<"a">>>>}

\* mutant: the hint is tested with `is not None`
query_not_none(query) == query # <<>>

\* `if req.query:`
query_truthy(query) == query # <<>> /\ query[1] # <<>>

InitStart ==
    /\ SIGNAL_KEYWORDS = <<>>
    /\ store \in {StoreOf(n) : n \in 0..MaxStore}
    /\ Idle

StartOk(mems, rel) ==
    [status_code |-> 200, status |-> "ok",
     user_id |-> req.user_id, project_id |-> req.project_id,
     memories_count |-> Len(DictGet(mems, "results", <<>>)),
     context |-> [recent |-> Slice(DictGet(mems, "results", <<>>), 0, RECENT_LIMIT),
                  relevant |-> rel]]

\* lines 197-199: up to the await of mem0_get_all
StartCall(user_id, project_id, query) ==
    /\ pc = "idle"
    /\ req' = [user_id |-> user_id, project_id |-> project_id, query |-> query]
    /\ Send(mem0_get_all(user_id, project_id))
    /\ pc' = "await_list"
    /\ UNCHANGED <<SIGNAL_KEYWORDS, response, signals, captured, idx,
                   memories, relevant, reply, store, clock>>

\* lines 199-221, 222-224: mem0_get_all returned or raised
StartListReturn ==
    /\ pc = "await_list"
    /\ inflight = <<>>
    /\ IF ~reply.ok
       THEN /\ response' = HttpError
            /\ pc' = "done"
            /\ UNCHANGED <<memories, calls, inflight>>
       ELSE /\ memories' = reply.body
            /\ IF query_truthy(req.query)
               THEN /\ Send(mem0_search(req.query[1], req.user_id,
                                        req.project_id, SEARCH_LIMIT))
                    /\ pc' = "await_search"
                    /\ UNCHANGED response
               ELSE /\ response' = StartOk(reply.body, <<>>)
                    /\ pc' = "done"
                    /\ UNCHANGED <<calls, inflight>>
    /\ UNCHANGED <<SIGNAL_KEYWORDS, req, signals, captured, idx, relevant,
                   reply, store, clock>>

\* lines 204-221, 222-224: mem0_search returned or raised
StartSearchReturn ==
    /\ pc = "await_search"
    /\ inflight = <<>>
    /\ IF ~reply.ok
       THEN /\ response' = HttpError
            /\ UNCHANGED relevant
       ELSE /\ relevant' = DictGet(reply.body, "results", <<>>)
            /\ response' = StartOk(memories, DictGet(reply.body, "results", <<>>))
    /\ pc' = "done"
    /\ UNCHANGED <<SIGNAL_KEYWORDS, req, signals, captured, idx, memories,
                   calls, inflight, reply, store, clock>>

NextStart ==
    \/ \E user_id \in Users, project_id \in Projects, query \in Queries :
          StartCall(user_id, project_id, query)
    \/ StartListReturn
    \/ StartSearchReturn
    \/ BackendList
    \/ \E honours_limit \in BOOLEAN : BackendSearch(honours_limit)
    \/ BackendFail

SpecStart == InitStart /\ [][NextStart]_vars

----------------------------------------------------------------------------
(* C1: for every configured trigger list and every text, detect_signals    *)
(* returns only trimmed entries of the list, no element twice, and a       *)
(* trimmed entry t is returned exactly when lower(t) is a substring of     *)
(* lower(text); an empty text or an empty list gives the empty sequence.   *)

TrimmedKeywords == {Strip(SIGNAL_KEYWORDS[k]) : k \in 1..Len(SIGNAL_KEYWORDS)}

NoDuplicates(s) == \A j, k \in 1..Len(s) : j # k => s[j] # s[k]

C1_DetectContract ==
    pc = "returned" =>
        /\ Range(response) \subseteq TrimmedKeywords
        /\ NoDuplicates(response)
        /\ \A t \in TrimmedKeywords :
               t \in Range(response) <=> Contains(Lower(req.text), Lower(t))
        /\ (req.text = <<>> \/ SIGNAL_KEYWORDS = <<>>) => response = <<>>

\* the part of C1 that does not depend on the list being duplicate-free
C1_DetectMembership ==
    pc = "returned" =>
        /\ Range(response) \subseteq TrimmedKeywords
        /\ \A t \in TrimmedKeywords :
               t \in Range(response) <=> Contains(Lower(req.text), Lower(t))
        /\ (req.text = <<>> \/ SIGNAL_KEYWORDS = <<>>) => response = <<>>

----------------------------------------------------------------------------
(* C2: extract_signal_context returns at most window + len(signal)         *)
(* characters, the result contains a case-insensitive occurrence of the    *)
(* signal whenever the text does, and the slice bounds lie in              *)
(* [0, len(text)].                                                         *)

C2_ExtractContract ==
    pc = "returned" =>
        LET found == Contains(Lower(req.text), Lower(req.signal))
            b == extract_bounds(req.text, req.signal, req.window,
                                Find(Lower(req.text), Lower(req.signal)))
        IN  /\ Len(response) <= req.window + Len(req.signal)
            /\ found => Contains(Lower(response), Lower(req.signal))
            /\ found => (0 <= b[1] /\ b[1] <= Len(req.text)
                          /\ 0 <= b[2] /\ b[2] <= Len(req.text))

----------------------------------------------------------------------------
(* C5: the metadata mem0_add sends holds every caller key with the         *)
(* caller's value, except captured_at, which always carries the timestamp  *)
(* the gateway has just taken, also when the caller supplies captured_at.  *)

C5_AddMetadata ==
    pc = "await_add" =>
        LET sent == calls[Len(calls)].json.metadata
            given == OrEmptyDict(req.metadata)
        IN  /\ \A k \in DOMAIN given :
                   k # "captured_at" => (k \in DOMAIN sent /\ sent[k] = given[k])
            /\ sent.captured_at = isoformat(req.now)

----------------------------------------------------------------------------
(* Outbound requests of session_end, by kind *)

IsSignalAdd(c) == c.op = "add" /\ "signal" \in DOMAIN c.json.metadata
IsTranscriptAdd(c) == c.op = "add" /\ "full_transcript" \in DOMAIN c.json.metadata

SignalAdds == {k \in 1..Len(calls) : IsSignalAdd(calls[k])}
TranscriptAdds == {k \in 1..Len(calls) : IsTranscriptAdd(calls[k])}

EndSucceeded == pc = "done" /\ response.status_code = 200
EndFailed == pc = "done" /\ response.status_code = 500

\* the trimmed configured triggers that occur in the transcript, in
\* configuration order
ConfiguredOccurring ==
    LET lowered == Lower(req.transcript)
        Occurs(t) == Contains(lowered, Lower(t))
    IN  SelectSeq([k \in 1..Len(SIGNAL_KEYWORDS) |-> Strip(SIGNAL_KEYWORDS[k])],
                  Occurs)

----------------------------------------------------------------------------
(* C3: when no gateway call fails, session_end issues one add per detected *)
(* signal plus exactly one full-transcript add iff the transcript is       *)
(* longer than 100 characters; with no signal and at most 100 characters   *)
(* it issues no call and answers with two empty lists.                     *)

C3_EndCallCount ==
    EndSucceeded =>
        LET detected == ConfiguredOccurring
            long == Len(req.transcript) > MIN_TRANSCRIPT_LEN
        IN  /\ \A k \in 1..Len(calls) : calls[k].op = "add"
            /\ Cardinality(SignalAdds) = Len(detected)
            /\ Cardinality(TranscriptAdds) = (IF long THEN 1 ELSE 0)
            /\ Len(calls) = Len(detected) + (IF long THEN 1 ELSE 0)
            /\ (detected = <<>> /\ ~long) =>
                   /\ calls = <<>>
                   /\ response.signals_detected = <<>>
                   /\ response.memories_captured = <<>>

\* two signals and a long transcript: three adds
C3_Witness ==
    /\ EndSucceeded
    /\ Len(signals) = 2
    /\ Len(req.transcript) > MIN_TRANSCRIPT_LEN
    /\ Len(calls) = 3

\* no signal and a long transcript: the full-transcript add alone
C3_WitnessNoSignal ==
    /\ EndSucceeded
    /\ signals = <<>>
    /\ Len(req.transcript) > MIN_TRANSCRIPT_LEN
    /\ Len(calls) = 1

----------------------------------------------------------------------------
(* C4: when the add for the j-th signal fails, session_end stops: the next *)
(* step is the HTTP 500 answer, no later signal and no full transcript is  *)
(* added, the answer holds neither signals_detected nor memories_captured, *)
(* and the j-1 records already stored remain.                              *)

SignalAddFailed == pc = "await_signal" /\ inflight = <<>> /\ ~reply.ok

C4_AbortedState ==
    (EndFailed /\ idx <= Len(signals)) =>
        /\ Len(calls) = idx
        /\ \A k \in 1..Len(calls) :
               IsSignalAdd(calls[k]) /\ calls[k].json.metadata.signal = signals[k]
        /\ TranscriptAdds = {}
        /\ DOMAIN response \cap {"signals_detected", "memories_captured"} = {}
        /\ Len(store) = idx - 1
        /\ \A k \in 1..Len(store) : store[k].metadata.signal = signals[k]
        /\ ~ENABLED NextEnd

C4_AbortStep ==
    SignalAddFailed =>
        /\ pc' = "done"
        /\ response' = HttpError
        /\ calls' = calls
        /\ store' = store
        /\ inflight' = <<>>

C4_EndAbortOnFailure == [](C4_AbortedState) /\ [][C4_AbortStep]_vars

\* the second of three signal adds failed, with a long transcript
C4_Witness ==
    /\ EndFailed
    /\ Len(signals) = 3
    /\ idx = 2
    /\ Len(store) = 1
    /\ Len(req.transcript) > MIN_TRANSCRIPT_LEN

----------------------------------------------------------------------------
(* C6: the per-signal adds of session_end are issued one at a time, each   *)
(* after the previous one returned, in the order of the configured         *)
(* triggers; on success memories_captured holds one {signal, memory_id}    *)
(* per detected signal in that order and signals_detected lists the        *)
(* signals in that order.                                                  *)

C6_EndSequentialOrder ==
    pc # "idle" =>
        LET expected == ConfiguredOccurring
        IN  /\ Len(inflight) <= 1
            /\ signals = expected
            /\ \A k \in 1..Len(calls) :
                   k <= Len(expected) =>
                       /\ IsSignalAdd(calls[k])
                       /\ calls[k].json.metadata.signal = expected[k]
                       /\ calls[k].json.metadata.source = "auto-capture"
            \* the k-th add starts when k-1 adds have returned
            /\ pc = "await_signal" => (Len(calls) = idx /\ Len(captured) = idx - 1)
            \* every capture is of a record the backend has stored
            /\ Len(captured) <= Len(store)
            /\ Len(captured) <= Len(expected)
            /\ \A k \in 1..Len(captured) :
                   /\ captured[k].signal = expected[k]
                   /\ captured[k].memory_id = store[k].id
                   /\ store[k].metadata.signal = expected[k]
            /\ EndSucceeded =>
                   /\ response.signals_detected = expected
                   /\ response.memories_captured = captured
                   /\ Len(captured) = Len(expected)

\* two signals whose order in the transcript is the reverse of the
\* configured order
C6_Witness ==
    /\ EndSucceeded
    /\ Len(signals) = 2
    /\ Len(response.memories_captured) = 2
    /\ Find(Lower(req.transcript), Lower(signals[1]))
           > Find(Lower(req.transcript), Lower(signals[2]))

----------------------------------------------------------------------------
(* C9 as claimed: the content of the full-transcript record is the first   *)
(* 5000 characters of the transcript, with source = "session-end" and      *)
(* full_transcript = true.                                                 *)

FirstChars(text, n) == [k \in 1..Min2(n, Len(text)) |-> text[k]]

C9_TranscriptCopy ==
    \A k \in TranscriptAdds :
        /\ calls[k].json.messages[1].content
               = FirstChars(req.transcript, TRANSCRIPT_LIMIT)
        /\ calls[k].json.metadata.source = "session-end"
        /\ calls[k].json.metadata.full_transcript = TRUE

(* C9 amended: the content of the full-transcript record is the line       *)
(* "Session transcript:" followed by the first 5000 characters of the      *)
(* transcript (all of it when shorter), with source = "session-end" and    *)
(* full_transcript = true; it is added exactly when the transcript is      *)
(* longer than 100 characters and every signal add succeeded.              *)

IsTranscriptRecord(r) == "full_transcript" \in DOMAIN r.metadata

C9_TranscriptRecord ==
    /\ \A k \in TranscriptAdds :
           /\ Len(req.transcript) > MIN_TRANSCRIPT_LEN
           /\ calls[k].json.messages[1].content
                  = TranscriptHeader \o FirstChars(req.transcript, TRANSCRIPT_LIMIT)
           /\ calls[k].json.metadata.source = "session-end"
           /\ calls[k].json.metadata.full_transcript = TRUE
    /\ \A k \in 1..Len(store) :
           IsTranscriptRecord(store[k]) =>
               /\ store[k].content
                      = TranscriptHeader \o FirstChars(req.transcript, TRANSCRIPT_LIMIT)
               /\ store[k].metadata.source = "session-end"
               /\ store[k].metadata.full_transcript = TRUE
    /\ (EndSucceeded /\ Len(req.transcript) > MIN_TRANSCRIPT_LEN) =>
           Cardinality({k \in 1..Len(store) : IsTranscriptRecord(store[k])}) = 1

\* a transcript longer than 5000 characters, stored truncated
C9_Witness ==
    /\ EndSucceeded
    /\ Len(req.transcript) > TRANSCRIPT_LIMIT
    /\ \E k \in 1..Len(store) :
           /\ IsTranscriptRecord(store[k])
           /\ Len(store[k].content) = Len(TranscriptHeader) + TRANSCRIPT_LIMIT

----------------------------------------------------------------------------
(* Outbound requests of session_start, by kind *)

ListCalls == {k \in 1..Len(calls) : calls[k].op = "get_all"}
SearchCalls == {k \in 1..Len(calls) : calls[k].op = "search"}

StartSucceeded == pc = "done" /\ response.status_code = 200

\* a query hint is present: given and not empty
QueryHintPresent == req.query # <<>> /\ Len(req.query[1]) > 0

----------------------------------------------------------------------------
(* C7 as claimed: every session_start call issues exactly one listAll; it  *)
(* issues exactly one search (limit 5, after listAll) if a query hint is   *)
(* present and none otherwise, relevant then being empty; an empty         *)
(* relevant result never makes the call fail.                              *)

C7_StartCalls ==
    pc = "done" =>
        /\ Cardinality(ListCalls) = 1
        /\ calls[1].op = "get_all"
        /\ QueryHintPresent =>
               /\ Cardinality(SearchCalls) = 1
               /\ calls[2].op = "search"
               /\ calls[2].json.limit = SEARCH_LIMIT
        /\ ~QueryHintPresent =>
               /\ SearchCalls = {}
               /\ StartSucceeded => response.context.relevant = <<>>
        /\ (reply.ok /\ reply.body.results = <<>>) => StartSucceeded

(* C7 amended: every session_start call issues exactly one listAll; when   *)
(* that call succeeds it issues exactly one search (limit 5, after         *)
(* listAll) if a non-empty query hint is present; it issues no search when *)
(* listAll fails or no non-empty hint is present, relevant being empty in  *)
(* the latter case; an empty relevant result never makes the call fail.    *)

C7_StartCallsAmended ==
    /\ pc # "idle" => (Cardinality(ListCalls) = 1 /\ calls[1].op = "get_all")
    /\ Cardinality(SearchCalls) <= 1
    /\ pc = "await_search" => QueryHintPresent
    /\ pc = "done" =>
        /\ QueryHintPresent =>
               \/ /\ Len(calls) = 2
                  /\ calls[2].op = "search"
                  /\ calls[2].json.limit = SEARCH_LIMIT
                  /\ calls[2].json.query = req.query[1]
               \/ /\ Len(calls) = 1      \* listAll failed
                  /\ ~reply.ok
                  /\ response.status_code = 500
        /\ ~QueryHintPresent =>
               /\ SearchCalls = {}
               /\ StartSucceeded => response.context.relevant = <<>>
        /\ reply.ok => StartSucceeded

\* a search that found nothing, answered with success
C7_Witness ==
    /\ StartSucceeded
    /\ QueryHintPresent
    /\ Len(calls) = 2
    /\ store # <<>>
    /\ response.context.relevant = <<>>

----------------------------------------------------------------------------
(* C8: for every successful session_start, whatever the backend returns,   *)
(* context.recent is the first 10 records of listAll (so at most 10),      *)
(* context.relevant has at most 5 records, and memories_count is the       *)
(* number of records listAll returned.                                     *)

C8_StartCaps ==
    StartSucceeded =>
        /\ Len(response.context.recent) <= RECENT_LIMIT
        /\ response.context.recent
               = [k \in 1..Min2(RECENT_LIMIT, Len(memories.results)) |->
                      memories.results[k]]
        /\ Len(response.context.relevant) <= SEARCH_LIMIT
        /\ response.memories_count = Len(memories.results)

\* the part of C8 about recent and memories_count
C8_RecentCap ==
    StartSucceeded =>
        /\ Len(response.context.recent) <= RECENT_LIMIT
        /\ response.context.recent
               = [k \in 1..Min2(RECENT_LIMIT, Len(memories.results)) |->
                      memories.results[k]]
        /\ response.memories_count = Len(memories.results)

----------------------------------------------------------------------------
(* C10: the listAll request of session_start is restricted by owner and    *)
(* project, so that with a backend that returns exactly the records        *)
(* matching the restrictions it receives every record of context.recent    *)
(* belongs to the requested owner and project.                             *)

C10_RecentScoped ==
    StartSucceeded =>
        \A k \in 1..Len(response.context.recent) :
            /\ response.context.recent[k].user_id = req.user_id
            /\ response.context.recent[k].project_id = req.project_id

\* what holds of the code: recent is restricted by owner alone
C10_RecentOfOwner ==
    StartSucceeded =>
        \A k \in 1..Len(response.context.recent) :
            response.context.recent[k].user_id = req.user_id

====
